---- MODULE Spec2Model ----
(***************************************************************************)
(* Model of the divination pipeline of yinggangtian/sf:                    *)
(*   - OrchestratorAgent.process (slot-filling conversation engine),       *)
(*     backend/ai_agents/agents/orchestrator.py                            *)
(*   - MasterAgent.run (pipeline coordinator),                             *)
(*     backend/ai_agents/agents/master_agent.py                            *)
(*   - LiurenAdapter qigua and PaipanEngine (symbolic engine),             *)
(*     backend/ai_agents/xlr/adapters/liuren_adapter.py,                   *)
(*     backend/ai_agents/xlr/liuren/engine.py                              *)
(*   - AlgorithmRegistry, backend/ai_agents/agents/registry.py             *)
(*   - DivinationService.perform_divination,                               *)
(*     backend/ai_agents/services/divination_service.py                    *)
(* Strings of the source that are not ASCII are written in pinyin:         *)
(*   "nan" = '男', "nv" = '女', "zonghe" = '综合', "shiye" = '事业';       *)
(*   the twelve branches zi chou yin mao chen si wu wei shen you xu hai;   *)
(*   the beasts qinglong zhuque gouchen tengshe baihu xuanwu; the elements *)
(*   mu huo tu jin shui; the relations sheng ke sheng_wo ke_wo tong and    *)
(*   wuguan = '无关'; the kinship labels zishen = '自身', fumu, xiongdi,   *)
(*   zisun, qicai, guangui and weizhi = '未知'.                            *)
(***************************************************************************)
EXTENDS Integers, Sequences, FiniteSets, TLC

VARIABLES
    \* --- one call of OrchestratorAgent.process (OrchSpec) ---
    o_pc,               \* "call" before process runs, "returned" after
    user_input,         \* features of the input text, see Texts
    current_slots,      \* the current_slots argument
    follow_up_count,    \* the follow_up_count argument
    context_data,       \* the context_data argument
    llm,                \* what the extractor (OpenAI call) answered, NoCall if not called
    extractor_calls,    \* number of calls of client.chat.completions.create
    o_result,           \* the dict process returned
    \* --- one turn of MasterAgent.run (Spec) ---
    pc,                 \* position inside run
    registry,           \* names registered in AlgorithmRegistry._adapters
    orchestrator_result,\* what orchestrator.process returned
    divination_result,  \* what _call_divination_tool returned
    rag_task,           \* the _call_rag_tool_async task
    profile_task,       \* the _call_profile_tool_async task
    rag_chunks,         \* local rag_chunks of run
    user_profile,       \* local user_profile of run
    explanation,        \* local explanation of run
    response,           \* the dict run returned
    events,             \* the stage events of the turn, in order
    \* --- consecutive turns of one conversation (ConversationSpec) ---
    clarifications,     \* consecutive clarification_needed responses received so far
    \* --- the qigua operation of LiurenAdapter, run twice (ChartSpec) ---
    c_pc,               \* "ready", "computed" after the first run, "recomputed"
    number1,            \* inputs["number1"]
    number2,            \* inputs["number2"]
    qigua_time,         \* inputs["qigua_time"]: Absent or a timestamp in hours
    knowledge_base,     \* the KnowledgeBase the adapter was built with
    clock,              \* the wall clock (datetime.now()), in hours
    first_result,       \* what the first run returned
    second_result,      \* what the second run returned
    operation,          \* inputs["operation"]
    validation,         \* what a call of validate_input on the inputs gave
    paipan_calls,       \* number of calls of PaipanEngine.generate_paipan
    \* --- calls on one AlgorithmRegistry (RegistrySpec) ---
    adapters,           \* _adapters: the pairs <<name, adapter object>>
    r_calls,            \* number of calls made so far; call k hands over adapter object k
    r_last,             \* the last call: its name, argument, outcome, _adapters before it
    \* --- one call of DivinationService.perform_divination (ServiceSpec) ---
    s_pc,               \* "ready" before the call, "done" after it
    s_request,          \* the arguments of the call and datetime.now() during it
    s_outcome,          \* what the call returned or raised
    charts,             \* number of charts the adapter computed for the call
    records             \* number of DivinationRecord rows committed to the record store

ovars == <<o_pc, user_input, current_slots, follow_up_count, context_data, llm,
           extractor_calls, o_result>>
mvars == <<pc, registry, orchestrator_result, divination_result, rag_task,
           profile_task, rag_chunks, user_profile, explanation, response, events>>
cvars == <<c_pc, number1, number2, qigua_time, knowledge_base, clock, first_result,
           second_result, operation, validation, paipan_calls>>
rvars == <<adapters, r_calls, r_last>>
svars == <<s_pc, s_request, s_outcome, charts, records>>
vars == <<o_pc, user_input, current_slots, follow_up_count, context_data, llm,
          extractor_calls, o_result, pc, registry, orchestrator_result,
          divination_result, rag_task, profile_task, rag_chunks, user_profile,
          explanation, response, events, clarifications, c_pc, number1, number2,
          qigua_time, knowledge_base, clock, first_result, second_result,
          operation, validation, paipan_calls, adapters, r_calls, r_last,
          s_pc, s_request, s_outcome, charts, records>>

----------------------------------------------------------------------------
(* Bounds of the model *)

\* largest integer the extractor proposes for num1 / num2
MaxProposed == 7
\* largest follow_up_count a caller passes to process
MaxFollowUpIn == 4
\* largest number of chunks the retriever returns
MaxChunks == 1
\* how far below 1 and above 6 the numbers handed to the adapter reach
MaxOutside == 1
\* largest number of calls made on one registry
MaxRegistryCalls == 5
\* largest number of extractor calls in one dialogue
MaxDialogueCalls == 2
\* largest count of consecutive clarification responses that is followed
MaxClarifications == 4
\* most hours that pass on the wall clock during one qigua run
MaxElapsed == 2

(* Constants of the program *)

max_follow_ups == 3
MaxInputLen == 1000
MaxEmbeddedNumber == 1000000
MinNumber == 1
MaxNumber == 6

----------------------------------------------------------------------------
(* Python values: a dict key that is missing is Absent, None is PyNone.    *)
(* A float carries its value in tenths (25 is 2.5).                        *)

Absent == [kind |-> "absent", n |-> 0, s |-> ""]
PyNone == [kind |-> "none", n |-> 0, s |-> ""]
IntV(k) == [kind |-> "int", n |-> k, s |-> ""]
FloatV(tenths) == [kind |-> "float", n |-> tenths, s |-> ""]
StrV(t) == [kind |-> "str", n |-> 0, s |-> t]

\* bool(v) of Python
Truthy(v) ==
    CASE v.kind = "absent" -> FALSE
      [] v.kind = "none" -> FALSE
      [] v.kind = "str" -> v.s # ""
      [] OTHER -> v.n # 0

\* the strings int() accepts, with their values
IntOfStr == [t \in {"3", "7"} |-> IF t = "3" THEN 3 ELSE 7]

\* whether int(v) returns (it raises ValueError / TypeError otherwise)
PyIntOk(v) ==
    \/ v.kind = "int"
    \/ v.kind = "float"
    \/ v.kind = "str" /\ v.s \in DOMAIN IntOfStr

\* int(v): an int is itself, a float is truncated towards zero, a string is parsed
PyInt(v) ==
    CASE v.kind = "int" -> v.n
      [] v.kind = "float" -> IF v.n >= 0 THEN v.n \div 10 ELSE 0 - ((0 - v.n) \div 10)
      [] v.kind = "str" -> IntOfStr[v.s]

----------------------------------------------------------------------------
(* Slot dicts *)

SlotNames == {"num1", "num2", "gender", "ask_time", "question_type", "algorithm_hint"}
EmptySlots == [k \in SlotNames |-> Absent]
Has(slots, k) == slots[k].kind # "absent"
Del(slots, k) == [slots EXCEPT ![k] = Absent]
\* dict.get(k, default)
Get(slots, k, default) == IF Has(slots, k) THEN slots[k] ELSE default

Genders == {"nan", "nv"}

----------------------------------------------------------------------------
(* OrchestratorAgent._validate_input: the guardrail.  A text is described  *)
(* by what the guardrail reads of it.                                      *)

mkText(len, blank, dangerous, topic, maxnum) ==
    [len |-> len, blank |-> blank, dangerous |-> dangerous, topic |-> topic,
     maxnum |-> maxnum]

ValidateInput(text) ==
    IF text.len = 0 \/ text.blank THEN "empty"
    ELSE IF text.len > MaxInputLen THEN "too_long"
    ELSE IF text.dangerous THEN "dangerous_pattern"
    ELSE IF text.topic THEN "forbidden_topic"
    ELSE IF text.maxnum > MaxEmbeddedNumber THEN "abnormal_number"
    ELSE "valid"

----------------------------------------------------------------------------
(* OrchestratorAgent._normalize_result *)

\* one round of the loop over ["num1", "num2"]: acc = [slots, errors, invalid]
ValidateNum(acc, f) ==
    LET v == acc.slots[f] IN
    IF v.kind \in {"absent", "none"} THEN acc
    ELSE IF PyIntOk(v) THEN
        IF PyInt(v) < 1
        THEN [slots |-> Del(acc.slots, f),
              errors |-> Append(acc.errors, <<f, "not_positive">>),
              invalid |-> Append(acc.invalid, f)]
        ELSE [acc EXCEPT !.slots[f] = IntV(PyInt(v))]
    ELSE [slots |-> Del(acc.slots, f),
          errors |-> Append(acc.errors, <<f, "not_integer">>),
          invalid |-> Append(acc.invalid, f)]

ValidateGender(acc) ==
    LET v == acc.slots["gender"] IN
    IF Has(acc.slots, "gender") /\ Truthy(v) /\ ~(v.kind = "str" /\ v.s \in Genders)
    THEN [slots |-> Del(acc.slots, "gender"),
          errors |-> Append(acc.errors, <<"gender", "not_in_enum">>),
          invalid |-> Append(acc.invalid, "gender")]
    ELSE acc

RequiredSlots == {"num1", "num2", "gender"}

\* s not in slots or slots[s] is None
IsMissing(slots, s) == ~Has(slots, s) \/ slots[s].kind = "none"

MissingRequired(slots) == {s \in RequiredSlots : IsMissing(slots, s)}

InvalidName(f) ==
    CASE f = "num1" -> "invalid_num1"
      [] f = "num2" -> "invalid_num2"
      [] f = "gender" -> "invalid_gender"

SeqToSet(q) == {q[i] : i \in 1..Len(q)}

\* the default of ask_time: context local_time, else the execution clock
DefaultAskTime(ctx) ==
    IF ctx.present /\ Truthy(ctx.local_time) THEN ctx.local_time ELSE StrV("clock_now")

ApplyDefaults(slots, ctx) ==
    LET s1 == IF ~Has(slots, "ask_time") \/ ~Truthy(slots["ask_time"])
              THEN [slots EXCEPT !["ask_time"] = DefaultAskTime(ctx)]
              ELSE slots
    IN  IF ~Has(s1, "question_type") \/ ~Truthy(s1["question_type"])
        THEN [s1 EXCEPT !["question_type"] = StrV("zonghe")]
        ELSE s1

\* the missing_slots list after the validation and the required-slot check
NormalizedMissing(reported, invalid, missing) ==
    LET afterValidation == reported \cup {InvalidName(f) : f \in SeqToSet(invalid)}
    IN  IF missing # {} THEN afterValidation \cup missing ELSE afterValidation

\* _generate_clarification_message: which template answers
GenerateClarificationMessage(missing_slots) ==
    LET named == {s \in missing_slots :
                     s \notin {"invalid_num1", "invalid_num2", "invalid_gender"}}
    IN  IF "invalid_num1" \in missing_slots \/ "invalid_num2" \in missing_slots
        THEN "number_range_error"
        ELSE IF "invalid_gender" \in missing_slots THEN "gender_format_error"
        ELSE IF Cardinality(named) = 1 /\ named \subseteq {"num1", "num2"}
        THEN "missing_number"
        ELSE IF named = {"gender"} THEN "missing_gender"
        ELSE IF named = {"question_type"} THEN "missing_question_type"
        ELSE "multiple_missing"

NormalizeResult(result, fuc, ctx) ==
    LET a0 == [slots |-> result.slots, errors |-> <<>>, invalid |-> <<>>]
        a1 == ValidateNum(a0, "num1")
        a2 == ValidateNum(a1, "num2")
        a3 == ValidateGender(a2)
        missing == MissingRequired(a3.slots)
        ms == NormalizedMissing(result.missing_slots, a3.invalid, missing)
        clar == missing # {}
    IN  [kind |-> "normalized",
         intent |-> IF result.intent.kind = "absent" THEN StrV("divination")
                    ELSE result.intent,
         slots |-> ApplyDefaults(a3.slots, ctx),
         missing_slots |-> ms,
         clarification_needed |-> clar,
         clarification_message |-> IF clar THEN GenerateClarificationMessage(ms)
                                   ELSE result.clarification_message,
         ready_to_execute |-> ~clar,
         follow_up_count |-> fuc,
         algorithm_hint |-> Get(result.slots, "algorithm_hint", StrV("xlr-liuren")),
         validation_errors |-> a3.errors,
         error |-> "",
         error_message |-> ""]

----------------------------------------------------------------------------
(* The other responses of OrchestratorAgent.process.  A key the dict does  *)
(* not carry reads as dict.get reads it: False, "" or the empty list.      *)

\* variant: the guardrail rejection forgets the slots collected so far
GuardrailResponse_DropsSlots(verdict, cur) ==
    [kind |-> "guardrail",
     intent |-> StrV("error"),
     slots |-> EmptySlots,
     missing_slots |-> {},
     clarification_needed |-> FALSE,
     clarification_message |-> "",
     ready_to_execute |-> FALSE,
     follow_up_count |-> 0,
     algorithm_hint |-> Absent,
     validation_errors |-> <<>>,
     error |-> "",
     error_message |-> verdict]

GuardrailResponse(verdict, cur) ==
    [kind |-> "guardrail",
     intent |-> StrV("error"),
     slots |-> cur,
     missing_slots |-> {},
     clarification_needed |-> FALSE,
     clarification_message |-> "",
     ready_to_execute |-> FALSE,
     follow_up_count |-> 0,
     algorithm_hint |-> Absent,
     validation_errors |-> <<>>,
     error |-> "",
     error_message |-> verdict]

CreateMaxFollowUpsResponse ==
    [kind |-> "max_follow_ups",
     intent |-> StrV("error"),
     slots |-> EmptySlots,
     missing_slots |-> {},
     clarification_needed |-> FALSE,
     clarification_message |-> "restart",
     ready_to_execute |-> FALSE,
     follow_up_count |-> max_follow_ups,
     algorithm_hint |-> Absent,
     validation_errors |-> <<>>,
     error |-> "max_follow_ups_exceeded",
     error_message |-> ""]

\* variant: the error response of process claims to be ready
CreateErrorResponse_Ready(message) ==
    [kind |-> "processing_error",
     intent |-> StrV("error"),
     slots |-> EmptySlots,
     missing_slots |-> {},
     clarification_needed |-> FALSE,
     clarification_message |-> message,
     ready_to_execute |-> TRUE,
     follow_up_count |-> 0,
     algorithm_hint |-> Absent,
     validation_errors |-> <<>>,
     error |-> "processing_error",
     error_message |-> ""]

CreateErrorResponse(message) ==
    [kind |-> "processing_error",
     intent |-> StrV("error"),
     slots |-> EmptySlots,
     missing_slots |-> {},
     clarification_needed |-> FALSE,
     clarification_message |-> message,
     ready_to_execute |-> FALSE,
     follow_up_count |-> 0,
     algorithm_hint |-> Absent,
     validation_errors |-> <<>>,
     error |-> "processing_error",
     error_message |-> ""]

\* what process does with the extractor's answer (the try block)
HandleExtractor(answer, fuc, ctx) ==
    CASE answer.kind = "json" -> NormalizeResult(answer.result, fuc, ctx)
      [] answer.kind = "non_json" -> CreateErrorResponse("parse_failed_rephrase")
      [] OTHER -> CreateErrorResponse("processing_failed_retry")

\* the steps of process before the extractor is called: "extract" when it is
ProcessGate(text, fuc) ==
    IF ValidateInput(text) # "valid" THEN "guardrail"
    ELSE IF fuc >= max_follow_ups THEN "max_follow_ups"
    ELSE "extract"

\* process as a whole; answer is read only when the extractor is called
Process(text, cur, fuc, ctx, answer) ==
    CASE ProcessGate(text, fuc) = "guardrail" ->
            GuardrailResponse(ValidateInput(text), cur)
      [] ProcessGate(text, fuc) = "max_follow_ups" -> CreateMaxFollowUpsResponse
      [] OTHER -> HandleExtractor(answer, fuc, ctx)

----------------------------------------------------------------------------
(* What the extractor (the OpenAI chat completion) can answer *)

NoCall == [kind |-> "not_called"]
NoResult == [kind |-> "none"]

\* the integers proposed for num1 / num2: around both ends of 1..6
IntProposals == (0..MinNumber) \cup (MaxNumber..MaxProposed)

NumProposals ==
    {Absent, PyNone, StrV("abc"), StrV("3"), FloatV(25)}
        \cup {IntV(k) : k \in IntProposals}

GenderProposals == {Absent, PyNone, StrV(""), StrV("nan"), StrV("nv"), StrV("male")}

\* what the extractor itself reports about completeness
Reports ==
    {[missing_slots |-> {}, ready |-> TRUE, clar |-> FALSE, msg |-> ""],
     [missing_slots |-> {"question_type"}, ready |-> FALSE, clar |-> TRUE,
      msg |-> "llm_asks_question_type"]}

\* the parsed JSON objects, one per choice of the fields
JsonAnswers(nums1, nums2, genders, routes, qtypes, atimes, reports) ==
    {[kind |-> "json",
      result |-> [intent |-> rt[1],
                  slots |-> [num1 |-> n1, num2 |-> n2, gender |-> g,
                             ask_time |-> at, question_type |-> qt,
                             algorithm_hint |-> rt[2]],
                  missing_slots |-> rp.missing_slots,
                  clarification_needed |-> rp.clar,
                  clarification_message |-> rp.msg,
                  ready_to_execute |-> rp.ready]] :
        n1 \in nums1, n2 \in nums2, g \in genders, rt \in routes,
        qt \in qtypes, at \in atimes, rp \in reports}

\* the answers that are no usable JSON object: the call raised (timeout, API
\* error), the text is no JSON, the JSON is no object of the expected shape
FailedAnswers == {[kind |-> "exception"], [kind |-> "non_json"], [kind |-> "wrong_shape"]}

ExtractorAnswers ==
    FailedAnswers \cup
    JsonAnswers(NumProposals, NumProposals, GenderProposals,
                {<<Absent, Absent>>, <<StrV("history"), StrV("xlr-liuyao")>>},
                {Absent, StrV("shiye")}, {Absent, StrV("2024-05-01T10:30:00")},
                Reports)

----------------------------------------------------------------------------
(* The arguments of process *)

Texts ==
    {mkText(0, TRUE, FALSE, FALSE, 0),                      \* ""
     mkText(3, TRUE, FALSE, FALSE, 0),                      \* "   "
     mkText(MaxInputLen + 1, FALSE, FALSE, FALSE, 0),
     mkText(12, FALSE, TRUE, FALSE, 0),                     \* "<script>..."
     mkText(12, FALSE, FALSE, TRUE, 0),                     \* a forbidden topic word
     mkText(12, FALSE, FALSE, FALSE, MaxEmbeddedNumber + 1),
     mkText(MaxInputLen, FALSE, FALSE, FALSE, MaxEmbeddedNumber),
     mkText(12, FALSE, FALSE, FALSE, 5)}

NoContext == [present |-> FALSE, local_time |-> Absent]
Contexts == {NoContext, [present |-> TRUE, local_time |-> StrV("ctx_local_time")]}

CompleteSlots ==
    [EmptySlots EXCEPT !["num1"] = IntV(3), !["num2"] = IntV(5),
                       !["gender"] = StrV("nan")]
CurrentSlotsIn == {EmptySlots, CompleteSlots}

----------------------------------------------------------------------------
(* MasterAgent.run is parked while process is called directly, and back *)

MasterParked ==
    /\ pc = "parked"
    /\ registry = {}
    /\ orchestrator_result = NoResult
    /\ divination_result = NoResult
    /\ rag_task = NoResult
    /\ profile_task = NoResult
    /\ rag_chunks = NoResult
    /\ user_profile = NoResult
    /\ explanation = NoResult
    /\ response = NoResult
    /\ events = <<>>

ChartParked ==
    /\ c_pc = "parked"
    /\ number1 = 0
    /\ number2 = 0
    /\ qigua_time = NoResult
    /\ knowledge_base = NoResult
    /\ clock = 0
    /\ first_result = NoResult
    /\ second_result = NoResult
    /\ operation = ""
    /\ validation = NoResult
    /\ paipan_calls = 0

RegistryParked ==
    /\ adapters = {}
    /\ r_calls = 0
    /\ r_last = NoResult

ServiceParked ==
    /\ s_pc = "parked"
    /\ s_request = NoResult
    /\ s_outcome = NoResult
    /\ charts = 0
    /\ records = 0

OrchParked ==
    /\ o_pc = "parked"
    /\ user_input = NoResult
    /\ current_slots = NoResult
    /\ follow_up_count = 0
    /\ context_data = NoResult
    /\ llm = NoCall
    /\ extractor_calls = 0
    /\ o_result = NoResult

----------------------------------------------------------------------------
(* OrchSpec: one call of OrchestratorAgent.process *)

OrchInit ==
    /\ o_pc = "call"
    /\ user_input \in Texts
    /\ current_slots \in CurrentSlotsIn
    /\ follow_up_count \in 0..MaxFollowUpIn
    /\ context_data \in Contexts
    /\ llm = NoCall
    /\ extractor_calls = 0
    /\ o_result = NoResult
    /\ MasterParked
    /\ clarifications = 0
    /\ ChartParked
    /\ RegistryParked
    /\ ServiceParked

\* process returns at the guardrail (lines 110-117)
ProcessGuardrailReject ==
    /\ o_pc = "call"
    /\ ProcessGate(user_input, follow_up_count) = "guardrail"
    /\ o_result' = Process(user_input, current_slots, follow_up_count, context_data, NoCall)
    /\ o_pc' = "returned"
    /\ UNCHANGED <<user_input, current_slots, follow_up_count, context_data, llm,
                   extractor_calls>>
    /\ UNCHANGED <<mvars, clarifications, cvars, rvars, svars>>

\* process returns at the follow-up bound (lines 120-121)
ProcessMaxFollowUps ==
    /\ o_pc = "call"
    /\ ProcessGate(user_input, follow_up_count) = "max_follow_ups"
    /\ o_result' = Process(user_input, current_slots, follow_up_count, context_data, NoCall)
    /\ o_pc' = "returned"
    /\ UNCHANGED <<user_input, current_slots, follow_up_count, context_data, llm,
                   extractor_calls>>
    /\ UNCHANGED <<mvars, clarifications, cvars, rvars, svars>>

\* process calls the extractor and handles its answer (lines 124-175)
ProcessExtract ==
    /\ o_pc = "call"
    /\ ProcessGate(user_input, follow_up_count) = "extract"
    /\ \E answer \in ExtractorAnswers :
          /\ llm' = answer
          /\ o_result' = Process(user_input, current_slots, follow_up_count,
                                 context_data, answer)
    /\ extractor_calls' = extractor_calls + 1
    /\ o_pc' = "returned"
    /\ UNCHANGED <<user_input, current_slots, follow_up_count, context_data>>
    /\ UNCHANGED <<mvars, clarifications, cvars, rvars, svars>>

OrchNext == ProcessGuardrailReject \/ ProcessMaxFollowUps \/ ProcessExtract

OrchSpec == OrchInit /\ [][OrchNext]_vars

----------------------------------------------------------------------------
(* MasterAgent: the helpers of run, master_agent.py *)

\* the texts of the exceptions collaborators raise
ExcMsgs == {"connection refused", "db password rejected"}

\* AlgorithmRegistry.route: the adapter name, or "" for None
Route(reg, hint) ==
    IF Truthy(hint) /\ hint.kind = "str" /\ hint.s \in reg THEN hint.s ELSE ""

\* AlgorithmRegistry.get
RegistryGet(reg, name) == IF name \in reg THEN name ELSE ""

\* variant: no fallback to the default adapter of line 291
SelectAdapter_NoFallback(reg, slots) ==
    Route(reg, Get(slots, "algorithm_hint", StrV("xlr-liuren")))

\* the adapter _call_divination_tool selects: the routed one, else the default
SelectAdapter(reg, slots) ==
    LET routed == Route(reg, Get(slots, "algorithm_hint", StrV("xlr-liuren")))
    IN  IF routed # "" THEN routed ELSE RegistryGet(reg, "xlr-liuren")

\* algorithm_inputs of _call_divination_tool; int() of a value that has none raises
AlgorithmInputs(slots) ==
    [operation |-> "qigua",
     number1 |-> PyInt(Get(slots, "num1", IntV(1))),
     number2 |-> PyInt(Get(slots, "num2", IntV(1))),
     gender |-> Get(slots, "gender", StrV("nan")),
     question_type |-> Get(slots, "question_type", StrV("zonghe")),
     qigua_time |-> Get(slots, "ask_time", PyNone)]

InputsConvertible(slots) ==
    /\ PyIntOk(Get(slots, "num1", IntV(1)))
    /\ PyIntOk(Get(slots, "num2", IntV(1)))

\* variant: validate_input without the range test of line 61
ValidateAdapterInput_NoRange(inputs) ==
    IF inputs.operation \notin {"qigua", "jiegua", "find_object"}
    THEN "unsupported_operation"
    ELSE IF inputs.qigua_time.kind \notin {"absent", "datetime", "str"}
    THEN "qigua_time_must_be_datetime_or_str"
    ELSE ""

\* LiurenAdapter.validate_input for operation qigua: "" when it returns True,
\* else the text of the ValueError; an Absent qigua_time is a key not in inputs
ValidateAdapterInput(inputs) ==
    IF inputs.operation \notin {"qigua", "jiegua", "find_object"}
    THEN "unsupported_operation"
    ELSE IF ~(  MinNumber <= inputs.number1 /\ inputs.number1 <= MaxNumber
             /\ MinNumber <= inputs.number2 /\ inputs.number2 <= MaxNumber)
    THEN "numbers_must_be_1_to_6"
    ELSE IF inputs.qigua_time.kind \notin {"absent", "datetime", "str"}
    THEN "qigua_time_must_be_datetime_or_str"
    ELSE ""

FailedDivination(err) ==
    [success |-> FALSE, result |-> "", algorithm_id |-> "", error |-> err]

\* _call_divination_tool up to executor.submit: the dict it returns early,
\* or NoResult when adapter.run is submitted
PrepareDivination(reg, slots) ==
    IF SelectAdapter(reg, slots) = "" THEN FailedDivination("algorithm_unavailable")
    ELSE IF ~InputsConvertible(slots) THEN FailedDivination("conversion_error")
    ELSE IF ValidateAdapterInput(AlgorithmInputs(slots)) # ""
    THEN FailedDivination(ValidateAdapterInput(AlgorithmInputs(slots)))
    ELSE NoResult

\* what _call_divination_tool returns once the submitted adapter.run has ended
DivinationOutcome(reg, slots, outcome) ==
    CASE outcome.kind = "returned" ->
            [success |-> TRUE, result |-> "chart",
             algorithm_id |-> SelectAdapter(reg, slots), error |-> ""]
      [] outcome.kind = "timeout" -> FailedDivination("algorithm_timeout")
      [] OTHER -> FailedDivination(outcome.msg)

\* line 117
\* variant: the clarification branch of lines 117-125 is never taken
NeedsClarification_Never(res) == FALSE

NeedsClarification(res) == res.clarification_needed
\* variant: the not-ready branch of lines 128-136 is never taken
NotReady_Never(res) == FALSE

\* line 128
NotReady(res) == ~res.ready_to_execute
\* line 148
IsDivinationIntent(res) == res.intent = StrV("divination")
\* variant: a failed tool result is not noticed at line 162
DivinationFailed_Never(dr) == FALSE

\* line 162
DivinationFailed(dr) == ~dr.success

\* the keywords _call_rag_tool builds: the adapter's result carries neither
\* "qigua" nor "jiegua", so only the question type contributes
RagKeywords(slots) ==
    IF Truthy(Get(slots, "question_type", Absent)) THEN {slots["question_type"].s} ELSE {}

NoneValue == [kind |-> "none", n |-> 0]
ListValue(k) == [kind |-> "list", n |-> k]
ProfileValue(k) == [kind |-> "profile", n |-> k]

\* a task of asyncio.gather: its state, how its call ended, what it returned
Running == [state |-> "running", outcome |-> "", value |-> NoneValue]
Hung == [state |-> "hung", outcome |-> "", value |-> NoneValue]
Finished(how, v) == [state |-> "done", outcome |-> how, value |-> v]

\* variant: a retrieval that timed out still hands chunks to the explainer
RagToolValue_KeepsOnTimeout(outcome) ==
    CASE outcome.kind = "results" -> ListValue(outcome.n)
      [] outcome.kind = "retriever_timeout" -> ListValue(1)
      [] outcome.kind = "retriever_raised" -> ListValue(0)
      [] OTHER -> NoneValue

\* what _call_rag_tool returns for each outcome of the retrieval
\* (RAGService.search_knowledge, RAGTool.search, lines 388-402)
RagToolValue(outcome) ==
    CASE outcome.kind = "results" -> ListValue(outcome.n)   \* success, chunks
      [] outcome.kind = "retriever_timeout" -> ListValue(0) \* degraded, success
      [] outcome.kind = "retriever_raised" -> ListValue(0)  \* degraded, success
      [] OTHER -> NoneValue                                 \* success False, or raised

\* what _call_profile_tool returns for each outcome of the lookup
ProfileToolValue(outcome) ==
    CASE outcome.kind = "found" -> ProfileValue(1)
      [] outcome.kind = "not_found" -> ProfileValue(0)      \* the default profile
      [] OTHER -> NoneValue                                 \* success False

\* variant: gather waits for the retrieval task only
GatherComplete_RagOnly(rt, pt) == rt.state = "done"

\* asyncio.gather has both results
GatherComplete(rt, pt) == rt.state = "done" /\ pt.state = "done"

\* rag_used and profile_used of the success response
RagUsed(chunks) == chunks.kind = "list" /\ chunks.n > 0
ProfileUsed(profile) == profile.kind # "none"

Reply(template, detail) == [template |-> template, detail |-> detail]

MkResponse(status, reply, hasResult, missing, err, ragUsed, profileUsed) ==
    [status |-> status, reply |-> reply, has_divination_result |-> hasResult,
     missing_slots |-> missing, error |-> err, rag_used |-> ragUsed,
     profile_used |-> profileUsed]

\* lines 118-125
ClarificationResponse(res) ==
    MkResponse("clarification_needed", Reply("clarification", res.clarification_message),
               FALSE, res.missing_slots, "", FALSE, FALSE)

\* lines 129-136
NotReadyResponse(res) ==
    MkResponse("error",
               Reply("orchestrator_message",
                     IF res.error_message # "" THEN res.error_message
                     ELSE IF res.clarification_message # "" THEN res.clarification_message
                     ELSE "cannot_understand"),
               FALSE, {}, "", FALSE, FALSE)

\* lines 154-160
UnsupportedIntentResponse(res) ==
    MkResponse("unsupported_intent", Reply("unsupported_intent", res.intent.s),
               FALSE, {}, "", FALSE, FALSE)

\* lines 163-170
ToolErrorResponse(dr) ==
    MkResponse("tool_error", Reply("sorry_retry_later", dr.error), FALSE, {}, "",
               FALSE, FALSE)

\* lines 242-256
SuccessResponse(text, chunks, profile) ==
    MkResponse("success", Reply("explanation", text), TRUE, {}, "",
               RagUsed(chunks), ProfileUsed(profile))

\* variant: the except branch answers with a status outside the five values
ExceptionResponse_Crashed(msg) ==
    MkResponse("crashed", Reply("system_error", ""), FALSE, {}, msg, FALSE, FALSE)

\* lines 258-267
ExceptionResponse(msg) ==
    MkResponse("error", Reply("system_error", ""), FALSE, {}, msg, FALSE, FALSE)

----------------------------------------------------------------------------
(* Spec: one turn of MasterAgent.run *)

MasterTexts == {mkText(12, FALSE, FALSE, FALSE, 5), mkText(12, FALSE, FALSE, TRUE, 0)}

MasterAnswers ==
    FailedAnswers \cup
    JsonAnswers({Absent, IntV(3), IntV(MaxProposed)}, {IntV(5), StrV("abc")},
                {StrV("nan"), PyNone},
                {<<Absent, Absent>>, <<Absent, StrV("xlr-liuyao")>>,
                 <<Absent, PyNone>>, <<Absent, StrV("")>>,
                 <<StrV("history"), Absent>>},
                {Absent, StrV("shiye")}, {Absent}, Reports)

Init ==
    /\ pc = "start"
    /\ registry \in {{}, {"xlr-liuren"}}
    /\ orchestrator_result = NoResult
    /\ divination_result = NoResult
    /\ rag_task = NoResult
    /\ profile_task = NoResult
    /\ rag_chunks = NoResult
    /\ user_profile = NoResult
    /\ explanation = NoResult
    /\ response = NoResult
    /\ events = <<>>
    /\ OrchParked
    /\ clarifications = 0
    /\ ChartParked
    /\ RegistryParked
    /\ ServiceParked

Return(resp) ==
    /\ response' = resp
    /\ pc' = "done"

\* Step 1, lines 106-109: run calls orchestrator.process(user_message, history)
\* with the defaults current_slots None, follow_up_count 0, context_data None
CallOrchestrator ==
    /\ pc = "start"
    /\ \E text \in MasterTexts, answer \in MasterAnswers :
          orchestrator_result' = Process(text, EmptySlots, 0, NoContext, answer)
    /\ events' = events \o <<"conversation_start", "conversation_end">>
    /\ pc' = "orchestrated"
    /\ UNCHANGED <<registry, divination_result, rag_task, profile_task, rag_chunks,
                   user_profile, explanation, response>>
    /\ UNCHANGED <<ovars, clarifications, cvars, rvars, svars>>

\* the injected orchestrator raises: caught at line 258
OrchestratorRaises ==
    /\ pc = "start"
    /\ \E m \in ExcMsgs : Return(ExceptionResponse(m))
    /\ events' = events \o <<"conversation_start", "conversation_raised">>
    /\ UNCHANGED <<registry, orchestrator_result, divination_result, rag_task,
                   profile_task, rag_chunks, user_profile, explanation>>
    /\ UNCHANGED <<ovars, clarifications, cvars, rvars, svars>>

\* lines 117-125
ReturnClarification ==
    /\ pc = "orchestrated"
    /\ NeedsClarification(orchestrator_result)
    /\ Return(ClarificationResponse(orchestrator_result))
    /\ UNCHANGED <<registry, orchestrator_result, divination_result, rag_task,
                   profile_task, rag_chunks, user_profile, explanation, events>>
    /\ UNCHANGED <<ovars, clarifications, cvars, rvars, svars>>

\* lines 128-136
ReturnNotReady ==
    /\ pc = "orchestrated"
    /\ ~NeedsClarification(orchestrator_result)
    /\ NotReady(orchestrator_result)
    /\ Return(NotReadyResponse(orchestrator_result))
    /\ UNCHANGED <<registry, orchestrator_result, divination_result, rag_task,
                   profile_task, rag_chunks, user_profile, explanation, events>>
    /\ UNCHANGED <<ovars, clarifications, cvars, rvars, svars>>

\* lines 148-160
ReturnUnsupportedIntent ==
    /\ pc = "orchestrated"
    /\ ~NeedsClarification(orchestrator_result)
    /\ ~NotReady(orchestrator_result)
    /\ ~IsDivinationIntent(orchestrator_result)
    /\ Return(UnsupportedIntentResponse(orchestrator_result))
    /\ UNCHANGED <<registry, orchestrator_result, divination_result, rag_task,
                   profile_task, rag_chunks, user_profile, explanation, events>>
    /\ UNCHANGED <<ovars, clarifications, cvars, rvars, svars>>

ReadyForDivination ==
    /\ pc = "orchestrated"
    /\ ~NeedsClarification(orchestrator_result)
    /\ ~NotReady(orchestrator_result)
    /\ IsDivinationIntent(orchestrator_result)

\* lines 162-180: a failed result returns tool_error, a successful one starts
\* both enrichment tasks (asyncio.gather); without keywords _call_rag_tool
\* returns None at once
AfterDivinationTool(dr) ==
    /\ divination_result' = dr
    /\ IF DivinationFailed(dr)
       THEN /\ Return(ToolErrorResponse(dr))
            /\ events' = Append(events, "computation_end")
            /\ UNCHANGED <<rag_task, profile_task>>
       ELSE /\ pc' = "enriching"
            /\ IF RagKeywords(orchestrator_result.slots) = {}
               THEN /\ rag_task' = Finished("no_keywords", NoneValue)
                    /\ events' = events \o <<"computation_end", "rag_start", "rag_end",
                                             "profile_start">>
               ELSE /\ rag_task' = Running
                    /\ events' = events \o <<"computation_end", "rag_start",
                                             "profile_start">>
            /\ profile_task' = Running
            /\ UNCHANGED response
    /\ UNCHANGED <<registry, orchestrator_result, rag_chunks, user_profile, explanation>>
    /\ UNCHANGED <<ovars, clarifications, cvars, rvars, svars>>

\* Step 2, line 323: adapter.run is submitted to the executor
DivinationSubmitted ==
    /\ ReadyForDivination
    /\ PrepareDivination(registry, orchestrator_result.slots) = NoResult
    /\ pc' = "computing"
    /\ events' = Append(events, "computation_start")
    /\ UNCHANGED <<registry, orchestrator_result, divination_result, rag_task,
                   profile_task, rag_chunks, user_profile, explanation, response>>
    /\ UNCHANGED <<ovars, clarifications, cvars, rvars, svars>>

\* Step 2, _call_divination_tool returns before adapter.run is submitted:
\* no adapter, or the inputs are rejected (lines 284-320, 339-344)
DivinationRejected ==
    /\ ReadyForDivination
    /\ PrepareDivination(registry, orchestrator_result.slots) # NoResult
    /\ pc' = "rejected"
    /\ events' = Append(events, "computation_start")
    /\ UNCHANGED <<registry, orchestrator_result, divination_result, rag_task,
                   profile_task, rag_chunks, user_profile, explanation, response>>
    /\ UNCHANGED <<ovars, clarifications, cvars, rvars, svars>>

\* the early result of _call_divination_tool reaches line 162
AfterRejection ==
    /\ pc = "rejected"
    /\ AfterDivinationTool(PrepareDivination(registry, orchestrator_result.slots))

\* future.result(timeout) has an outcome, lines 324-344
AfterComputation(outcome) ==
    /\ pc = "computing"
    /\ AfterDivinationTool(DivinationOutcome(registry, orchestrator_result.slots, outcome))

AdapterReturns == AfterComputation([kind |-> "returned", msg |-> ""])
AdapterRaises == \E m \in ExcMsgs : AfterComputation([kind |-> "raised", msg |-> m])
\* tool_timeout expires first, whether the adapter is slow or never answers
AdapterTimeout == AfterComputation([kind |-> "timeout", msg |-> ""])

\* Step 3: the retrieval task ends with some outcome
RagEnds(outcome) ==
    /\ pc = "enriching"
    /\ rag_task.state = "running"
    /\ rag_task' = Finished(outcome.kind, RagToolValue(outcome))
    /\ events' = Append(events, "rag_end")
    /\ UNCHANGED <<pc, registry, orchestrator_result, divination_result, profile_task,
                   rag_chunks, user_profile, explanation, response>>
    /\ UNCHANGED <<ovars, clarifications, cvars, rvars, svars>>

RetrieverReturns == \E k \in 0..MaxChunks : RagEnds([kind |-> "results", n |-> k])
\* future.result(timeout=3.0) expires, rag_service.py line 86
RetrieverTimeout == RagEnds([kind |-> "retriever_timeout", n |-> 0])
\* rag_service.py line 94
RetrieverRaises == RagEnds([kind |-> "retriever_raised", n |-> 0])
\* search_knowledge itself raises, rag_tool.py line 68
RagServiceRaises == RagEnds([kind |-> "service_raised", n |-> 0])

\* Step 4: the profile task ends with some outcome
ProfileEnds(outcome) ==
    /\ pc = "enriching"
    /\ profile_task.state = "running"
    /\ profile_task' = Finished(outcome.kind, ProfileToolValue(outcome))
    /\ events' = Append(events, "profile_end")
    /\ UNCHANGED <<pc, registry, orchestrator_result, divination_result, rag_task,
                   rag_chunks, user_profile, explanation, response>>
    /\ UNCHANGED <<ovars, clarifications, cvars, rvars, svars>>

ProfileFound == ProfileEnds([kind |-> "found"])
ProfileNotFound == ProfileEnds([kind |-> "not_found"])
ProfileRaises == ProfileEnds([kind |-> "raised"])

\* memory_service.get_user_profile never answers: nothing bounds the call
\* (profile_tool.py line 39, master_agent.py lines 415, 461-465)
ProfileHangs ==
    /\ pc = "enriching"
    /\ profile_task.state = "running"
    /\ profile_task' = Hung
    /\ UNCHANGED <<pc, registry, orchestrator_result, divination_result, rag_task,
                   rag_chunks, user_profile, explanation, response, events>>
    /\ UNCHANGED <<ovars, clarifications, cvars, rvars, svars>>

\* lines 176-197: gather returns both values and the explainer is called
GatherReturns ==
    /\ pc = "enriching"
    /\ GatherComplete(rag_task, profile_task)
    /\ rag_chunks' = rag_task.value
    /\ user_profile' = profile_task.value
    /\ events' = Append(events, "explanation_start")
    /\ pc' = "explaining"
    /\ UNCHANGED <<registry, orchestrator_result, divination_result, rag_task,
                   profile_task, explanation, response>>
    /\ UNCHANGED <<ovars, clarifications, cvars, rvars, svars>>

\* Step 5 and 6: generate_explanation returns the LLM's text or, when the LLM
\* call fails, its fallback text; then _save_conversation_summary logs (or its
\* except branch swallows a failure) and run returns success (lines 197-256)
ExplainerReturns ==
    /\ pc = "explaining"
    /\ \E text \in {"llm_text", "fallback_text"}, saved \in {"logged", "save_failed_swallowed"} :
          /\ explanation' = [kind |-> "text", source |-> text]
          /\ events' = events \o <<"explanation_end", "persistence_start", saved>>
          /\ Return(SuccessResponse(text, rag_chunks, user_profile))
    /\ UNCHANGED <<registry, orchestrator_result, divination_result, rag_task,
                   profile_task, rag_chunks, user_profile>>
    /\ UNCHANGED <<ovars, clarifications, cvars, rvars, svars>>

\* generate_explanation raises outside its own try block (_assemble_prompt,
\* explainer.py lines 89-96, or the fallback): caught at line 258
ExplainerRaises ==
    /\ pc = "explaining"
    /\ \E m \in ExcMsgs : Return(ExceptionResponse(m))
    /\ events' = Append(events, "explanation_raised")
    /\ UNCHANGED <<registry, orchestrator_result, divination_result, rag_task,
                   profile_task, rag_chunks, user_profile, explanation>>
    /\ UNCHANGED <<ovars, clarifications, cvars, rvars, svars>>

Next ==
    \/ CallOrchestrator
    \/ OrchestratorRaises
    \/ ReturnClarification
    \/ ReturnNotReady
    \/ ReturnUnsupportedIntent
    \/ DivinationRejected
    \/ DivinationSubmitted
    \/ AfterRejection
    \/ AdapterReturns
    \/ AdapterRaises
    \/ AdapterTimeout
    \/ RetrieverReturns
    \/ RetrieverTimeout
    \/ RetrieverRaises
    \/ RagServiceRaises
    \/ ProfileFound
    \/ ProfileNotFound
    \/ ProfileRaises
    \/ ProfileHangs
    \/ GatherReturns
    \/ ExplainerReturns
    \/ ExplainerRaises

Spec == Init /\ [][Next]_vars

----------------------------------------------------------------------------
(* ConversationSpec: consecutive turns of one conversation, each a call of *)
(* MasterAgent.run                                                         *)

\* the client sends the next message of the conversation: run starts again
\* with fresh locals (lines 67-109); nothing of the previous turn is kept
NextTurn ==
    /\ pc = "done"
    /\ clarifications < MaxClarifications
    /\ clarifications' = IF response.status = "clarification_needed"
                         THEN clarifications + 1 ELSE 0
    /\ pc' = "start"
    /\ orchestrator_result' = NoResult
    /\ divination_result' = NoResult
    /\ rag_task' = NoResult
    /\ profile_task' = NoResult
    /\ rag_chunks' = NoResult
    /\ user_profile' = NoResult
    /\ explanation' = NoResult
    /\ response' = NoResult
    /\ events' = <<>>
    /\ UNCHANGED <<registry, ovars, cvars, rvars, svars>>

ConversationNext == Next \/ NextTurn

ConversationSpec == Init /\ [][ConversationNext]_vars

----------------------------------------------------------------------------
(* DialogueSpec: consecutive calls of OrchestratorAgent.process, a caller  *)
(* passing each returned "slots" as the next current_slots (as             *)
(* test_progressive_slot_filling does) and any follow_up_count             *)

DialogueTexts ==
    {mkText(12, FALSE, FALSE, FALSE, 5), mkText(12, FALSE, FALSE, TRUE, 0)}

DialogueAnswers ==
    FailedAnswers \cup
    JsonAnswers({Absent, IntV(3), IntV(4)}, {Absent, IntV(5)},
                {Absent, StrV("nan")}, {<<Absent, Absent>>}, {Absent}, {Absent},
                {[missing_slots |-> {}, ready |-> TRUE, clar |-> FALSE, msg |-> ""]})

DialogueInit ==
    /\ o_pc = "call"
    /\ user_input \in DialogueTexts
    /\ current_slots = EmptySlots
    /\ follow_up_count = 0
    /\ context_data = NoContext
    /\ llm = NoCall
    /\ extractor_calls = 0
    /\ o_result = NoResult
    /\ MasterParked
    /\ clarifications = 0
    /\ ChartParked
    /\ RegistryParked
    /\ ServiceParked

\* process calls the extractor and handles its answer (lines 124-175)
DialogueExtract ==
    /\ o_pc = "call"
    /\ extractor_calls < MaxDialogueCalls
    /\ ProcessGate(user_input, follow_up_count) = "extract"
    /\ \E answer \in DialogueAnswers :
          /\ llm' = answer
          /\ o_result' = Process(user_input, current_slots, follow_up_count,
                                 context_data, answer)
    /\ extractor_calls' = extractor_calls + 1
    /\ o_pc' = "returned"
    /\ UNCHANGED <<user_input, current_slots, follow_up_count, context_data>>
    /\ UNCHANGED <<mvars, clarifications, cvars, rvars, svars>>

\* the caller starts the next turn with the slots process returned
DialogueNextTurn ==
    /\ o_pc = "returned"
    /\ current_slots' = o_result.slots
    /\ user_input' \in DialogueTexts
    /\ follow_up_count' \in 0..MaxFollowUpIn
    /\ llm' = NoCall
    /\ o_pc' = "call"
    /\ UNCHANGED <<context_data, extractor_calls, o_result>>
    /\ UNCHANGED <<mvars, clarifications, cvars, rvars, svars>>

DialogueNext ==
    \/ ProcessGuardrailReject
    \/ ProcessMaxFollowUps
    \/ DialogueExtract
    \/ DialogueNextTurn

DialogueSpec == DialogueInit /\ [][DialogueNext]_vars

----------------------------------------------------------------------------
(* PaipanEngine (engine.py) and the knowledge base it reads (utils.py)     *)

YIN_DIZHI == <<"chou", "mao", "si", "wei", "you", "hai">>
YANG_DIZHI == <<"zi", "yin", "chen", "wu", "shen", "xu">>
LIUSHOU_ORDER == <<"qinglong", "zhuque", "gouchen", "tengshe", "baihu", "xuanwu">>

AllDizhi == SeqToSet(YIN_DIZHI) \cup SeqToSet(YANG_DIZHI)
Positions == 1..6

LIUSHOU_START_MAP ==
    [d \in AllDizhi |->
        CASE d \in {"yin", "mao"} -> "qinglong"
          [] d \in {"si", "wu"} -> "zhuque"
          [] d \in {"chou", "chen"} -> "gouchen"
          [] d \in {"wei", "xu"} -> "tengshe"
          [] d \in {"shen", "you"} -> "baihu"
          [] OTHER -> "xuanwu"]

\* the seed rows the knowledge base is loaded from (scripts/init_database.py)
GongWuxing ==
    [pos \in Positions |->
        CASE pos = 1 -> "mu" [] pos = 2 -> "huo" [] pos = 3 -> "huo"
          [] pos = 4 -> "jin" [] pos = 5 -> "shui" [] OTHER -> "tu"]

ShouWuxing ==
    [b \in SeqToSet(LIUSHOU_ORDER) |->
        CASE b = "qinglong" -> "mu" [] b = "zhuque" -> "huo" [] b = "gouchen" -> "tu"
          [] b = "tengshe" -> "huo" [] b = "baihu" -> "jin" [] OTHER -> "shui"]

DizhiWuxing ==
    [d \in AllDizhi |->
        CASE d \in {"zi", "hai"} -> "shui"
          [] d \in {"yin", "mao"} -> "mu"
          [] d \in {"si", "wu"} -> "huo"
          [] d \in {"shen", "you"} -> "jin"
          [] OTHER -> "tu"]

\* the generating cycle mu -> huo -> tu -> jin -> shui -> mu of WUXING_RELATIONS
Wuxing == <<"mu", "huo", "tu", "jin", "shui">>
WuxingIndex(e) == CHOOSE i \in 1..5 : Wuxing[i] = e
WUXING_RELATIONS ==
    [e1 \in SeqToSet(Wuxing) |-> [e2 \in SeqToSet(Wuxing) |->
        LET d == (WuxingIndex(e2) - WuxingIndex(e1) + 5) % 5
        IN  CASE d = 0 -> "tong"
              [] d = 1 -> "sheng"
              [] d = 2 -> "ke"
              [] d = 3 -> "ke_wo"
              [] OTHER -> "sheng_wo"]]

QinNames == {"fumu", "xiongdi", "guangui", "qicai", "zisun"}

\* a KnowledgeBase: what was loaded into it
SeedKB ==
    [gong |-> Positions, shou |-> SeqToSet(LIUSHOU_ORDER), qin |-> QinNames,
     dizhi |-> AllDizhi, relations |-> TRUE]
\* the knowledge base get_master_agent builds: load_wuxing_relations is not called
AppKB == [SeedKB EXCEPT !.relations = FALSE]
\* KnowledgeBase() with nothing loaded
EmptyKB == [gong |-> {}, shou |-> {}, qin |-> {}, dizhi |-> {}, relations |-> FALSE]
KnowledgeBases == {SeedKB, AppKB, EmptyKB}

\* KnowledgeBase.is_loaded
IsLoaded(kb) == kb.gong # {} /\ kb.shou # {} /\ kb.qin # {} /\ kb.dizhi # {}

\* KnowledgeBase.get_wuxing_relation
GetWuxingRelation(kb, element1, element2) ==
    IF ~kb.relations THEN "wuguan" ELSE WUXING_RELATIONS[element1][element2]

\* variant: the formula of the comment in calculate_luogong, (a + b - 1) % 6 + 1
CalculateLuogong_PlusOne(num1, num2) == ((num1 + num2 - 1) % 6) + 1

\* PaipanEngine.calculate_luogong
CalculateLuogong(num1, num2) ==
    LET result == (num1 + num2 - 1) % 6
    IN  IF result # 0 THEN result ELSE 6

\* a datetime, in hours since the midnight that starts day 0
DateTime(h) == [kind |-> "datetime", n |-> h, s |-> ""]
HourOf(dt) == dt.n % 24
DayOf(dt) == dt.n \div 24

\* the table dizhi_hours of get_shichen_info: (branch, start hour, end hour)
DizhiHours ==
    <<<<"zi", 23, 1>>, <<"chou", 1, 3>>, <<"yin", 3, 5>>, <<"mao", 5, 7>>,
      <<"chen", 7, 9>>, <<"si", 9, 11>>, <<"wu", 11, 13>>, <<"wei", 13, 15>>,
      <<"shen", 15, 17>>, <<"you", 17, 19>>, <<"xu", 19, 21>>, <<"hai", 21, 23>>>>

\* the loop of get_shichen_info: the first row that matches, else zi
CurrentDizhi(hour) ==
    LET matches == {i \in 1..Len(DizhiHours) :
                      \/ DizhiHours[i][2] <= hour /\ hour < DizhiHours[i][3]
                      \/ DizhiHours[i][2] = 23 /\ hour >= 23}
    IN  IF matches = {} THEN "zi"
        ELSE DizhiHours[CHOOSE i \in matches : \A j \in matches : i <= j][1]

\* PaipanEngine.get_shichen_info
GetShichenInfo(kb, dt) ==
    [dizhi |-> CurrentDizhi(HourOf(dt)),
     hour |-> HourOf(dt),
     dizhi_info |-> IF CurrentDizhi(HourOf(dt)) \in kb.dizhi
                    THEN DizhiWuxing[CurrentDizhi(HourOf(dt))] ELSE "",
     day |-> DayOf(dt)]

\* variant: the yang sequence whatever the branch
GetDizhiSequence_AlwaysYang(current_dizhi) == YANG_DIZHI

\* PaipanEngine._get_dizhi_sequence
GetDizhiSequence(current_dizhi) ==
    IF current_dizhi \in SeqToSet(YIN_DIZHI) THEN YIN_DIZHI ELSE YANG_DIZHI

\* list.index, 0-based
IndexOf(lst, item) == (CHOOSE i \in 1..Len(lst) : lst[i] = item) - 1

\* variant: the list is not rotated
RotateList_Identity(lst, target_item, target_pos_index) == lst

\* PaipanEngine._rotate_list: target_item comes to the 0-based target_pos_index
RotateList(lst, target_item, target_pos_index) ==
    IF target_item \notin SeqToSet(lst) THEN lst
    ELSE LET n == Len(lst)
             start_item_idx == (IndexOf(lst, target_item) - target_pos_index) % n
         IN  [i \in 1..n |-> lst[((start_item_idx + (i - 1)) % n) + 1]]

\* a lattice is a dict keyed by position; a key that is missing is an entry
\* with name ""
NoEntry == [name |-> "", position |-> 0, wuxing |-> "", dizhi |-> "",
            is_luogong |-> FALSE, is_ti_gong |-> FALSE, is_yong_gong |-> FALSE]
\* a lattice key ("liushou", "liuqin") that paipan_data does not carry
NoLattice == [present |-> FALSE, at |-> [pos \in Positions |-> NoEntry]]

GongName(pos) ==
    CASE pos = 1 -> "daan" [] pos = 2 -> "liulian" [] pos = 3 -> "suxi"
      [] pos = 4 -> "chikou" [] pos = 5 -> "xiaoji" [] OTHER -> "kongwang"

\* PaipanEngine._generate_liugong_paipan: gong_1 .. gong_6
GenerateLiugongPaipan(kb, luogong, shichen_info, ti_gong, yong_gong) ==
    LET rotated_dizhis == RotateList(GetDizhiSequence(shichen_info.dizhi),
                                     shichen_info.dizhi, luogong - 1)
    IN  [present |-> TRUE,
         at |-> [pos \in Positions |->
                    IF pos \in kb.gong
                    THEN [name |-> GongName(pos), position |-> pos,
                          wuxing |-> GongWuxing[pos],
                          dizhi |-> IF rotated_dizhis[pos] \in kb.dizhi
                                    THEN rotated_dizhis[pos] ELSE "",
                          is_luogong |-> pos = luogong,
                          is_ti_gong |-> pos = ti_gong,
                          is_yong_gong |-> pos = yong_gong]
                    ELSE NoEntry]]

\* PaipanEngine._add_liushou_paipan: shou_1 .. shou_6
AddLiushouPaipan(kb, liugong) ==
    IF liugong.at[1].name = "" \/ liugong.at[1].dizhi = "" THEN NoLattice
    ELSE LET gong_1_dizhi_name == liugong.at[1].dizhi
             start_shou_name == IF gong_1_dizhi_name \in DOMAIN LIUSHOU_START_MAP
                                THEN LIUSHOU_START_MAP[gong_1_dizhi_name]
                                ELSE "qinglong"
             rotated_shous == RotateList(LIUSHOU_ORDER, start_shou_name, 0)
         IN  [present |-> TRUE,
              at |-> [pos \in Positions |->
                         IF rotated_shous[pos] \in kb.shou
                         THEN [NoEntry EXCEPT !.name = rotated_shous[pos],
                                              !.position = pos,
                                              !.wuxing = ShouWuxing[rotated_shous[pos]]]
                         ELSE NoEntry]]

\* variant: the taiji position is labelled by its element like any other
CalculateLiuqinRelation_NoSelf(kb, me_wuxing, other_wuxing, is_self) ==
    LET relation == GetWuxingRelation(kb, me_wuxing, other_wuxing)
    IN  CASE relation = "sheng" -> "zisun"
          [] relation = "ke" -> "qicai"
          [] relation = "sheng_wo" -> "fumu"
          [] relation = "ke_wo" -> "guangui"
          [] relation = "tong" -> "xiongdi"
          [] OTHER -> "weizhi"

\* PaipanEngine._calculate_liuqin_relation
CalculateLiuqinRelation(kb, me_wuxing, other_wuxing, is_self) ==
    IF is_self THEN "zishen"
    ELSE LET relation == GetWuxingRelation(kb, me_wuxing, other_wuxing)
         IN  CASE relation = "sheng" -> "zisun"
               [] relation = "ke" -> "qicai"
               [] relation = "sheng_wo" -> "fumu"
               [] relation = "ke_wo" -> "guangui"
               [] relation = "tong" -> "xiongdi"
               [] OTHER -> "weizhi"

\* PaipanEngine._add_liuqin_paipan: qin_1 .. qin_6
AddLiuqinPaipan(kb, liugong, luogong) ==
    IF liugong.at[luogong].name = "" \/ liugong.at[luogong].dizhi = "" THEN NoLattice
    ELSE LET taiji_wuxing == DizhiWuxing[liugong.at[luogong].dizhi]
         IN  [present |-> TRUE,
              at |-> [i \in Positions |->
                         IF liugong.at[i].name = "" \/ liugong.at[i].dizhi = ""
                         THEN NoEntry
                         ELSE [NoEntry EXCEPT
                                 !.name = CalculateLiuqinRelation(
                                             kb, taiji_wuxing,
                                             DizhiWuxing[liugong.at[i].dizhi],
                                             i = luogong),
                                 !.position = i,
                                 !.wuxing = DizhiWuxing[liugong.at[i].dizhi]]]]

\* PaipanEngine._add_wuxing_analysis.  elements_present is list(set(...)):
\* its order is fixed by the elements within one interpreter process
AddWuxingAnalysis(kb, liugong, liushou) ==
    LET elements ==
            {liugong.at[pos].wuxing : pos \in {q \in Positions : liugong.at[q].name # ""}}
              \cup {liushou.at[pos].wuxing :
                      pos \in {q \in Positions : liushou.at[q].name # ""}}
    IN  [elements_present |-> elements,
         element_relations |->
            [elem1 \in elements |->
                [elem2 \in elements \ {elem1} |-> GetWuxingRelation(kb, elem1, elem2)]]]

\* PaipanEngine.generate_paipan: PaipanResult, creation_time read from the clock
GeneratePaipan(kb, qigua_info, now) ==
    LET liugong == GenerateLiugongPaipan(kb, qigua_info.luogong, qigua_info.shichen_info,
                                         qigua_info.number1, qigua_info.number2)
        liushou == AddLiushouPaipan(kb, liugong)
        liuqin == AddLiuqinPaipan(kb, liugong, qigua_info.luogong)
    IN  [qigua_info |-> [qigua_info EXCEPT !.ti_gong = qigua_info.number1,
                                           !.yong_gong = qigua_info.number2],
         paipan_data |-> [liugong |-> liugong, liushou |-> liushou, liuqin |-> liuqin,
                          wuxing_analysis |-> AddWuxingAnalysis(kb, liugong, liushou)],
         creation_time |-> now]

\* variant: the supplied qigua_time is ignored and the clock is read
QiguaTimeOf_AlwaysNow(supplied, now) == DateTime(now)

\* inputs.get("qigua_time", datetime.now())
QiguaTimeOf(supplied, now) == IF supplied.kind = "absent" THEN DateTime(now) ELSE supplied

\* LiurenAdapter._run_qigua
RunQigua(kb, num1, num2, supplied, now) ==
    LET dt == QiguaTimeOf(supplied, now)
        luogong == CalculateLuogong(num1, num2)
        shichen_info == GetShichenInfo(kb, dt)
        qigua_info == [number1 |-> num1, number2 |-> num2, qigua_time |-> dt,
                       luogong |-> luogong, shichen_info |-> shichen_info,
                       ti_gong |-> 0, yong_gong |-> 0]
    IN  [operation |-> "qigua",
         success |-> TRUE,
         paipan_result |-> GeneratePaipan(kb, qigua_info, now),
         luogong |-> luogong,
         shichen |-> shichen_info.dizhi]

----------------------------------------------------------------------------
(* ChartSpec: the qigua operation run twice on the same inputs and the     *)
(* same adapter, the wall clock moving on in between                       *)

SuppliedTimes == {Absent} \cup {DateTime(h) : h \in 0..23}

\* operation names a caller passes: the one this model computes and one the
\* adapter does not know
Operations == {"qigua", "paipan"}
ProposedNumbers == (MinNumber - MaxOutside)..(MaxNumber + MaxOutside)

\* the inputs dict handed to validate_input and run
QiguaInputs ==
    [operation |-> operation, number1 |-> number1, number2 |-> number2,
     qigua_time |-> qigua_time]

\* an exception leaving the adapter
Raised(exception, msg) == [kind |-> "raised", exception |-> exception, msg |-> msg]

ChartInit ==
    /\ c_pc = "ready"
    /\ operation \in Operations
    /\ number1 \in ProposedNumbers
    /\ number2 \in ProposedNumbers
    /\ qigua_time \in SuppliedTimes
    /\ knowledge_base \in KnowledgeBases
    /\ clock = 0
    /\ first_result = NoResult
    /\ second_result = NoResult
    /\ validation = NoResult
    /\ paipan_calls = 0
    /\ clarifications = 0
    /\ MasterParked
    /\ OrchParked
    /\ RegistryParked
    /\ ServiceParked

\* LiurenAdapter.validate_input(inputs), called on its own
AdapterValidateInput ==
    /\ c_pc = "ready"
    /\ validation = NoResult
    /\ validation' = IF ValidateAdapterInput(QiguaInputs) = ""
                     THEN [kind |-> "returned", value |-> TRUE]
                     ELSE Raised("ValueError", ValidateAdapterInput(QiguaInputs))
    /\ UNCHANGED <<c_pc, number1, number2, qigua_time, knowledge_base, clock,
                   first_result, second_result, operation, paipan_calls>>
    /\ UNCHANGED <<ovars, mvars, clarifications, rvars, svars>>

\* LiurenAdapter.run(inputs): validate_input raises before the try block
QiguaRejected ==
    /\ c_pc = "ready"
    /\ ValidateAdapterInput(QiguaInputs) # ""
    /\ first_result' = Raised("ValueError", ValidateAdapterInput(QiguaInputs))
    /\ c_pc' = "rejected"
    /\ UNCHANGED <<number1, number2, qigua_time, knowledge_base, clock, second_result,
                   operation, validation, paipan_calls>>
    /\ UNCHANGED <<ovars, mvars, clarifications, rvars, svars>>

\* LiurenAdapter.run(inputs) with operation qigua
QiguaRun ==
    /\ c_pc = "ready"
    /\ ValidateAdapterInput(QiguaInputs) = ""
    /\ first_result' = RunQigua(knowledge_base, number1, number2, qigua_time, clock)
    /\ paipan_calls' = paipan_calls + 1
    /\ clock' \in clock..(clock + MaxElapsed)
    /\ c_pc' = "computed"
    /\ UNCHANGED <<number1, number2, qigua_time, knowledge_base, second_result,
                   operation, validation>>
    /\ UNCHANGED <<ovars, mvars, clarifications, rvars, svars>>

\* the same call once more
QiguaRerun ==
    /\ c_pc = "computed"
    /\ second_result' = RunQigua(knowledge_base, number1, number2, qigua_time, clock)
    /\ paipan_calls' = paipan_calls + 1
    /\ clock' \in clock..(clock + MaxElapsed)
    /\ c_pc' = "recomputed"
    /\ UNCHANGED <<number1, number2, qigua_time, knowledge_base, first_result,
                   operation, validation>>
    /\ UNCHANGED <<ovars, mvars, clarifications, rvars, svars>>

ChartNext == AdapterValidateInput \/ QiguaRejected \/ QiguaRun \/ QiguaRerun

ChartSpec == ChartInit /\ [][ChartNext]_vars

----------------------------------------------------------------------------
(* RegistrySpec: register, clear and bootstrap_default_adapters called in  *)
(* any order on one AlgorithmRegistry                                      *)

\* the names adapters answer to get_name() with
AdapterNames == {"xlr-liuren", "xlr-liuyao"}

\* the keys of the dict _adapters
RegistryNames(d) == {p[1] : p \in d}

\* what a call leaves behind: whether it raised, and _adapters after it
CallResult(raised, d) == [raised |-> raised, adapters |-> d]

\* variant: register without the test of line 22, the assignment of line 24
\* replaces the adapter registered before
Register_Overwrites(d, name, adapter) ==
    CallResult(FALSE, {p \in d : p[1] # name} \cup {<<name, adapter>>})

\* AlgorithmRegistry.register
Register(d, name, adapter) ==
    IF name \in RegistryNames(d)
    THEN CallResult(TRUE, d)
    ELSE CallResult(FALSE, {p \in d : p[1] # name} \cup {<<name, adapter>>})

\* bootstrap_default_adapters
BootstrapDefaultAdapters(d, adapter) ==
    IF "xlr-liuren" \notin RegistryNames(d)
    THEN Register(d, "xlr-liuren", adapter)
    ELSE CallResult(FALSE, d)

RegistryInit ==
    /\ adapters = {}
    /\ r_calls = 0
    /\ r_last = NoResult
    /\ clarifications = 0
    /\ MasterParked
    /\ OrchParked
    /\ ChartParked
    /\ ServiceParked

RegistryCall(op, name, result) ==
    /\ r_calls < MaxRegistryCalls
    /\ r_calls' = r_calls + 1
    /\ adapters' = result.adapters
    /\ r_last' = [op |-> op, name |-> name, raised |-> result.raised, before |-> adapters]
    /\ UNCHANGED <<ovars, mvars, clarifications, cvars, svars>>

\* registry.register(adapter) with a newly built adapter
RegisterCall ==
    \E name \in AdapterNames :
        RegistryCall("register", name, Register(adapters, name, r_calls + 1))

\* registry.clear()
ClearCall == RegistryCall("clear", "", CallResult(FALSE, {}))

\* bootstrap_default_adapters(kb)
BootstrapCall ==
    RegistryCall("bootstrap", "xlr-liuren", BootstrapDefaultAdapters(adapters, r_calls + 1))

RegistryNext == RegisterCall \/ ClearCall \/ BootstrapCall

RegistrySpec == RegistryInit /\ [][RegistryNext]_vars

----------------------------------------------------------------------------
(* ServiceSpec: one call of DivinationService.perform_divination           *)

\* question_type.strip() is empty
IsBlank(text) == text \in {"", " "}

\* the arguments of the call; now is datetime.now() at line 256
ServiceRequests ==
    [num1 : ProposedNumbers, num2 : ProposedNumbers,
     gender : {"nan", "male"},
     ask_time : {DateTime(0), DateTime(1)}, now : {0},
     question_type : {"shiye", " "},
     algorithm_hint : {PyNone, StrV("xlr-liuyao")}]

\* DivinationService._validate_slots: "" when it returns, else the text of the
\* ValueError; the two range tests are commented out (lines 248-252)
ValidateSlots(req) ==
    IF req.gender \notin Genders THEN "gender_must_be_nan_or_nv"
    ELSE IF req.ask_time.n > req.now THEN "ask_time_in_future"
    ELSE IF IsBlank(req.question_type) THEN "question_type_empty"
    ELSE ""

\* lines 67-72: what perform_divination raises before its try block, "" if nothing
ServicePrecheck(req) ==
    IF ValidateSlots(req) # "" THEN ValidateSlots(req)
    ELSE IF Truthy(req.algorithm_hint) /\ req.algorithm_hint # StrV("xlr-liuren")
    THEN "unsupported_algorithm_hint"
    ELSE ""

\* qigua_inputs of line 76
ServiceQiguaInputs(req) ==
    [operation |-> "qigua", number1 |-> req.num1, number2 |-> req.num2,
     qigua_time |-> req.ask_time]

ServiceInit ==
    /\ s_pc = "ready"
    /\ s_request \in ServiceRequests
    /\ s_outcome = NoResult
    /\ charts = 0
    /\ records = 0
    /\ clarifications = 0
    /\ MasterParked
    /\ OrchParked
    /\ ChartParked
    /\ RegistryParked

ServiceDone(outcome) ==
    /\ s_pc = "ready"
    /\ s_pc' = "done"
    /\ s_outcome' = outcome
    /\ UNCHANGED s_request
    /\ UNCHANGED <<ovars, mvars, clarifications, cvars, rvars>>

\* lines 67-72: _validate_slots or the hint test raises ValueError
PerformDivinationInvalid ==
    /\ ServicePrecheck(s_request) # ""
    /\ ServiceDone(Raised("ValueError", ServicePrecheck(s_request)))
    /\ UNCHANGED <<charts, records>>

\* lines 84, 131-134: adapter.run raises from validate_input inside the try,
\* the session is rolled back and RuntimeError carries the text on
PerformDivinationAdapterRejects ==
    /\ ServicePrecheck(s_request) = ""
    /\ ValidateAdapterInput(ServiceQiguaInputs(s_request)) # ""
    /\ ServiceDone(Raised("RuntimeError",
                          ValidateAdapterInput(ServiceQiguaInputs(s_request))))
    /\ UNCHANGED <<charts, records>>

\* lines 84-112, 131-134: the chart is computed, then jiegua, the text or the
\* commit raises; nothing is saved
PerformDivinationFails ==
    /\ ServicePrecheck(s_request) = ""
    /\ ValidateAdapterInput(ServiceQiguaInputs(s_request)) = ""
    /\ \E stage \in {"jiegua_failed", "interpretation_failed", "commit_failed"} :
          ServiceDone(Raised("RuntimeError", stage))
    /\ charts' = charts + 1
    /\ UNCHANGED records

\* lines 74-129: the whole flow, the record is committed
PerformDivinationReturns ==
    /\ ServicePrecheck(s_request) = ""
    /\ ValidateAdapterInput(ServiceQiguaInputs(s_request)) = ""
    /\ ServiceDone([kind |-> "returned", algorithm |-> "xlr-liuren"])
    /\ charts' = charts + 1
    /\ records' = records + 1

ServiceNext ==
    \/ PerformDivinationInvalid
    \/ PerformDivinationAdapterRejects
    \/ PerformDivinationFails
    \/ PerformDivinationReturns

ServiceSpec == ServiceInit /\ [][ServiceNext]_vars

----------------------------------------------------------------------------
(* Properties of MasterAgent.run, stated for Spec *)

Occurs(e) == \E i \in 1..Len(events) : events[i] = e

\* every occurrence of event b has an occurrence of event a before it
Precedes(a, b) ==
    \A j \in 1..Len(events) : events[j] = b => \E i \in 1..(j - 1) : events[i] = a

Statuses == {"success", "clarification_needed", "tool_error", "unsupported_intent", "error"}

Orchestrated == orchestrator_result # NoResult
Computed == divination_result # NoResult
ComputationFailed == Computed /\ ~divination_result.success
ComputationSucceeded == Computed /\ divination_result.success

EnrichmentStarted == Occurs("rag_start") \/ Occurs("profile_start")
ExplanationStarted == Occurs("explanation_start")
PersistenceStarted == Occurs("persistence_start")

RagFailureKinds == {"retriever_timeout", "retriever_raised", "service_raised"}
RagFailed == rag_task # NoResult /\ rag_task.outcome \in RagFailureKinds
ProfileFailed == profile_task # NoResult /\ profile_task.outcome = "raised"
AbsentValues == {NoneValue, ListValue(0)}

\* C1: when the computation stage fails (adapter timeout, adapter exception,
\* validate_input rejection, no adapter), the turn has returned tool_error
\* without a divination_result and no later stage was started.
C1_ComputationFailureIsFatal ==
    ComputationFailed =>
        /\ pc = "done"
        /\ response.status = "tool_error"
        /\ ~response.has_divination_result
        /\ ~EnrichmentStarted
        /\ ~ExplanationStarted
        /\ ~PersistenceStarted
        /\ rag_task = NoResult /\ profile_task = NoResult

\* a turn whose adapter call timed out has returned
C1_Witness ==
    /\ pc = "done"
    /\ ComputationFailed
    /\ divination_result.error = "algorithm_timeout"

\* C2: once process has returned a result that is not ready, the only step of
\* the turn is the return of the clarification or error payload: no
\* computation, enrichment, explanation or persistence event ever occurs.
C2_NotReadyReturnsImmediately ==
    (Orchestrated /\ (orchestrator_result.clarification_needed
                        \/ ~orchestrator_result.ready_to_execute)) =>
        /\ pc \in {"orchestrated", "done"}
        /\ ~Occurs("computation_start")
        /\ ~EnrichmentStarted /\ ~ExplanationStarted /\ ~PersistenceStarted
        /\ divination_result = NoResult
        /\ pc = "done" =>
              /\ response.status =
                    IF orchestrator_result.clarification_needed
                    THEN "clarification_needed" ELSE "error"
              /\ orchestrator_result.clarification_needed =>
                    /\ response.reply.detail = orchestrator_result.clarification_message
                    /\ response.missing_slots = orchestrator_result.missing_slots
              /\ ~response.has_divination_result

\* a turn that returned a clarification request
C2_Witness ==
    /\ pc = "done"
    /\ Orchestrated
    /\ orchestrator_result.clarification_needed
    /\ response.status = "clarification_needed"

C4_StageOrder ==
    /\ Precedes("conversation_end", "computation_start")
    /\ Precedes("computation_end", "rag_start")
    /\ Precedes("computation_end", "profile_start")
    /\ Precedes("rag_end", "explanation_start")
    /\ Precedes("profile_end", "explanation_start")
    /\ Precedes("explanation_end", "persistence_start")
    /\ pc = "explaining" => rag_task.state = "done" /\ profile_task.state = "done"
    /\ pc = "enriching" => ~ExplanationStarted

\* the explainer was invoked in a turn where the profile lookup ended first
C4_Witness ==
    /\ pc = "explaining"
    /\ \E i, j \in 1..Len(events) :
          i < j /\ events[i] = "profile_end" /\ events[j] = "rag_end"

\* C5: a turn never gets stuck: in every state it has returned or can step.
C5_EveryTurnReturns == pc = "done" \/ ENABLED Next

\* C6 as stated: the status is one of the five values and an exception raised
\* by any stage yields status error.
AnyStageRaised ==
    \/ Occurs("conversation_raised")
    \/ (Computed /\ divination_result.error \in ExcMsgs)
    \/ (rag_task # NoResult /\ rag_task.outcome \in {"retriever_raised", "service_raised"})
    \/ ProfileFailed
    \/ Occurs("explanation_raised")
    \/ Occurs("save_failed_swallowed")

C6_AnyExceptionYieldsError ==
    pc = "done" =>
        /\ response.status \in Statuses
        /\ AnyStageRaised => response.status = "error"

\* C6 as amended: the status is one of the five values; an exception that
\* escapes the orchestrator or the explainer yields error; an exception of the
\* adapter yields tool_error; exceptions of the enrichment calls and of the
\* persistence step do not change the status.
C6_ExceptionsAreMapped ==
    pc = "done" =>
        /\ response.status \in Statuses
        /\ (Occurs("conversation_raised") \/ Occurs("explanation_raised")) =>
              response.status = "error" /\ response.error \in ExcMsgs
        /\ (Computed /\ divination_result.error \in ExcMsgs) =>
              response.status = "tool_error"
        /\ (ExplanationStarted /\ ~Occurs("explanation_raised")) =>
              response.status = "success"

\* the explainer raised and the turn returned error
C6_Witness ==
    /\ pc = "done"
    /\ Occurs("explanation_raised")
    /\ response.status = "error"

\* C7 as stated: a failure ends the turn before the explanation stage only if
\* it is a computation failure, a guardrail rejection or the exceeded retry
\* bound; after any other failure the turn finishes with a complete result.
ExtractorFailed == Orchestrated /\ orchestrator_result.kind = "processing_error"
GuardrailRejected == Orchestrated /\ orchestrator_result.kind = "guardrail"
RetryBoundExceeded == Orchestrated /\ orchestrator_result.kind = "max_follow_ups"
FallbackUsed == explanation = [kind |-> "text", source |-> "fallback_text"]
ExplainerFailed == Occurs("explanation_raised") \/ FallbackUsed
PersistenceFailed == Occurs("save_failed_swallowed")

----------------------------------------------------------------------------
(* Properties of OrchestratorAgent.process, stated for OrchSpec *)

Returned == o_pc = "returned"
ExtractorAnswered == Returned /\ llm.kind = "json"

ValidNum(v) == v.kind = "int" /\ v.n \in MinNumber..MaxNumber
ValidGender(v) == v.kind = "str" /\ v.s \in Genders
SlotsValid(slots) ==
    /\ ValidNum(slots["num1"])
    /\ ValidNum(slots["num2"])
    /\ ValidGender(slots["gender"])

\* a proposed value that is there and is not acceptable for its field
ProposedInvalid(f, v) ==
    /\ v.kind \notin {"absent", "none"}
    /\ IF f = "gender" THEN ~ValidGender(v)
       ELSE ~(v.kind \in {"int", "str"} /\ PyIntOk(v)
                /\ PyInt(v) \in MinNumber..MaxNumber)

\* C8: every result process returns from an extractor answer is ready exactly
\* when its slots hold num1 and num2 that are integers in 1..6 and a gender
\* of the enumeration.
C8_ReadyIffSlotsValid ==
    ExtractorAnswered => (o_result.ready_to_execute <=> SlotsValid(o_result.slots))

\* C9: valid num1, num2 and gender from the extractor give a ready result
\* with empty missing_slots whatever else the extractor reported; if one of
\* the three is absent the result asks for clarification and is not ready.
C9_CompleteIsReadyAndNothingMissing ==
    ExtractorAnswered =>
        /\ SlotsValid(llm.result.slots) =>
              o_result.ready_to_execute /\ o_result.missing_slots = {}
        /\ (\E f \in RequiredSlots : ~Has(llm.result.slots, f)) =>
              o_result.clarification_needed /\ ~o_result.ready_to_execute

\* C10: a proposed num1 / num2 outside 1..6 or no integer, or a gender that
\* is not of the enumeration, is removed from the returned slots, is listed
\* as invalid_<field> in missing_slots, and the result asks for clarification.
C10_InvalidValuesAreRemoved ==
    ExtractorAnswered =>
        \A f \in RequiredSlots :
            ProposedInvalid(f, llm.result.slots[f]) =>
                /\ ~Has(o_result.slots, f)
                /\ InvalidName(f) \in o_result.missing_slots
                /\ o_result.clarification_needed
                /\ ~o_result.ready_to_execute

\* C30: process fills the default ask_time and the default question_type only
\* in results where num1, num2 and gender are all present and valid; in a
\* clarification result an ask_time or question_type the extractor did not
\* give stays absent.
C30_DefaultsOnlyWhenRequiredSatisfied ==
    (ExtractorAnswered /\ o_result.clarification_needed) =>
        /\ ~Has(llm.result.slots, "ask_time") => ~Has(o_result.slots, "ask_time")
        /\ ~Has(llm.result.slots, "question_type") => ~Has(o_result.slots, "question_type")

\* C11: process called with follow_up_count at or above max_follow_ups returns
\* the restart response for every text, without calling the extractor.
C11_BoundAlwaysRestarts ==
    (Returned /\ follow_up_count >= max_follow_ups) =>
        /\ o_result.error = "max_follow_ups_exceeded"
        /\ o_result.clarification_message = "restart"
        /\ ~o_result.ready_to_execute
        /\ llm = NoCall /\ extractor_calls = 0

\* C12: a text the guardrail rejects ends the call with intent error and
\* ready_to_execute false, the extractor is not called, and the slots returned
\* are the current_slots passed in.
C12_GuardrailRejectionFrame ==
    (Returned /\ ValidateInput(user_input) # "valid") =>
        /\ o_result.intent = StrV("error")
        /\ ~o_result.ready_to_execute
        /\ o_result.error_message = ValidateInput(user_input)
        /\ llm = NoCall /\ extractor_calls = 0
        /\ o_result.slots = current_slots

\* a forbidden-topic text was rejected while three slots had been collected
C12_Witness ==
    /\ Returned
    /\ ValidateInput(user_input) = "forbidden_topic"
    /\ current_slots = CompleteSlots
    /\ o_result.slots = CompleteSlots

RephraseMessages == {"parse_failed_rephrase", "processing_failed_retry"}

----------------------------------------------------------------------------
(* Properties of consecutive process calls, stated for DialogueSpec *)

ValidSlot(slots, f) ==
    IF f = "gender" THEN ValidGender(slots[f]) ELSE ValidNum(slots[f])

\* the extractor proposed a value for f in this turn that differs from cur
ProposedDifferent(f, cur) ==
    /\ llm.kind = "json"
    /\ llm.result.slots[f].kind \notin {"absent", "none"}
    /\ llm.result.slots[f] # cur

\* C14: a required slot that was present and valid in current_slots is
\* returned with the same value unless the extractor proposed a different
\* value for it in that turn, whatever kind of response the turn ends with.
C14_ValidSlotsSurviveTheTurn ==
    Returned =>
        \A f \in RequiredSlots :
            (ValidSlot(current_slots, f) /\ ~ProposedDifferent(f, current_slots[f])) =>
                o_result.slots[f] = current_slots[f]

----------------------------------------------------------------------------
(* Properties of consecutive turns of run, stated for ConversationSpec *)

\* C15: the follow-up count carried into process equals the number of
\* consecutive clarification turns so far, and a conversation receives at most
\* max_follow_ups consecutive clarification_needed responses.
C15_FollowUpsAreCountedAndBounded ==
    /\ clarifications <= max_follow_ups
    /\ (Orchestrated /\ orchestrator_result.kind = "normalized") =>
          orchestrator_result.follow_up_count = clarifications

----------------------------------------------------------------------------
(* Properties of the qigua operation, stated for ChartSpec *)

FirstDone == c_pc \in {"computed", "recomputed"}
BothDone == c_pc = "recomputed"
TimeSupplied == qigua_time.kind = "datetime"
FirstChart == first_result.paipan_result.paipan_data
SecondChart == second_result.paipan_result.paipan_data

C17_SelfAtLuogongOnly ==
    (FirstDone /\ IsLoaded(knowledge_base)) =>
        /\ FirstChart.liuqin.present
        /\ \A pos \in Positions :
              (FirstChart.liuqin.at[pos].name = "zishen") <=> (pos = first_result.luogong)

\* with the seed knowledge base another position holds a branch of the taiji
\* element and is labelled xiongdi, while luogong is labelled zishen
C17_Witness ==
    /\ FirstDone
    /\ knowledge_base = SeedKB
    /\ FirstChart.liuqin.at[first_result.luogong].name = "zishen"
    /\ \E pos \in Positions :
          /\ pos # first_result.luogong
          /\ FirstChart.liuqin.at[pos].wuxing
                = FirstChart.liuqin.at[first_result.luogong].wuxing
          /\ FirstChart.liuqin.at[pos].name = "xiongdi"

C19_SameInputsSameLattices ==
    (BothDone /\ TimeSupplied) =>
        /\ FirstChart.liugong = SecondChart.liugong
        /\ FirstChart.liushou = SecondChart.liushou
        /\ FirstChart.liuqin = SecondChart.liuqin
        /\ FirstChart.wuxing_analysis = SecondChart.wuxing_analysis
        /\ first_result.luogong = second_result.luogong
        /\ first_result.shichen = second_result.shichen

\* the second run was made at a later wall-clock time than the first one
C19_Witness ==
    /\ BothDone /\ TimeSupplied
    /\ knowledge_base = SeedKB
    /\ second_result.paipan_result.creation_time
          > first_result.paipan_result.creation_time
    /\ FirstChart = SecondChart

\* C20: the result of qigua is a function of number1, number2, the supplied
\* timestamp and the knowledge base only: two runs on the same inputs at
\* different wall-clock times return results equal in every field.
C20_ResultIndependentOfClock ==
    (BothDone /\ TimeSupplied) => first_result = second_result

C29_KinshipLabelsAreExhaustive ==
    (FirstDone /\ knowledge_base = AppKB) =>
        /\ FirstChart.liuqin.present
        /\ \A pos \in Positions :
              /\ FirstChart.liuqin.at[pos].name
                    \in {"zishen", "fumu", "xiongdi", "zisun", "qicai", "guangui"}
              /\ (/\ pos # first_result.luogong
                  /\ FirstChart.liuqin.at[pos].wuxing
                        = FirstChart.liuqin.at[first_result.luogong].wuxing)
                    => FirstChart.liuqin.at[pos].name = "xiongdi"

\* C21: a qigua attempted while KnowledgeBase.is_loaded() is false fails and
\* produces no chart; it never returns a successful result whose chart is
\* empty or partly filled.
C21_UnloadedKnowledgeBaseFails ==
    (FirstDone /\ ~IsLoaded(knowledge_base)) => ~first_result.success

\* C22: validate_input and run reject a qigua request whose number1 or number2
\* lies outside 1..6 by raising ValueError, without coercing the value and
\* before any chart is computed; an unsupported operation name is rejected in
\* the same way.
RequestOutOfRange ==
    \/ number1 \notin MinNumber..MaxNumber
    \/ number2 \notin MinNumber..MaxNumber
    \/ operation # "qigua"

C22_OutOfRangeIsRejected ==
    /\ (c_pc # "ready" /\ RequestOutOfRange) =>
          /\ c_pc = "rejected"
          /\ first_result.kind = "raised"
          /\ first_result.exception = "ValueError"
          /\ paipan_calls = 0
    /\ (validation # NoResult /\ RequestOutOfRange) =>
          /\ validation.kind = "raised"
          /\ validation.exception = "ValueError"
    /\ (validation # NoResult /\ ~RequestOutOfRange) => validation.kind = "returned"
    /\ (c_pc = "rejected") => RequestOutOfRange

\* number2 = 7 with a supported operation: both validate_input and run raised
C22_Witness ==
    /\ c_pc = "rejected"
    /\ operation = "qigua"
    /\ number1 = 3 /\ number2 = MaxNumber + 1
    /\ validation.kind = "raised"
    /\ first_result.msg = "numbers_must_be_1_to_6"

----------------------------------------------------------------------------
(* Properties of the registry and of the turn's outcome, stated for Spec *)

AlgorithmHint == Get(orchestrator_result.slots, "algorithm_hint", StrV("xlr-liuren"))
Unrouted == Orchestrated /\ Route(registry, AlgorithmHint) = ""

\* C23: route returns None without raising for a None, empty or unregistered
\* hint and leaves the registry as it was; the turn then uses the default
\* adapter xlr-liuren, and reports the computation as failed for want of an
\* adapter only when the default is not registered either.
C23_UnroutedHintFallsBack ==
    /\ [](pc = "computing" /\ Unrouted => "xlr-liuren" \in registry)
    /\ []((Computed /\ Unrouted) =>
            /\ (divination_result.error = "algorithm_unavailable")
                  <=> ("xlr-liuren" \notin registry)
            /\ divination_result.success => divination_result.algorithm_id = "xlr-liuren")
    /\ [][registry' = registry]_vars

\* an unregistered hint, the default adapter computed the chart
C23_Witness ==
    /\ Computed
    /\ AlgorithmHint = StrV("xlr-liuyao")
    /\ registry = {"xlr-liuren"}
    /\ divination_result.success
    /\ divination_result.algorithm_id = "xlr-liuren"

\* C26: a turn that returns success has handed its terminal projection
\* (query, chart, interpretation) to the record store during the turn: a
\* divination record exists afterwards unless the store itself failed.
C26_SuccessIsRecorded ==
    (pc = "done" /\ response.status = "success" /\ ~PersistenceFailed) => records > 0

\* C27: a response with status error or tool_error carries only a fixed safe
\* message and none of the exception's own text, so that two turns differing
\* only in the exception's message return the same response.
C27_NoExceptionTextInResponse ==
    (pc = "done" /\ response.status \in {"error", "tool_error"}) =>
        /\ response.reply.detail \notin ExcMsgs
        /\ response.error \notin ExcMsgs

----------------------------------------------------------------------------
(* Properties of the registry operations, stated for RegistrySpec *)

\* C24: after any sequence of register, clear and bootstrap_default_adapters
\* calls each name maps to at most one adapter; register of a name that is
\* already registered raises and leaves the mapping as it was, while
\* bootstrap_default_adapters never raises, however often it is called.
C24_OneAdapterPerName ==
    /\ \A p \in adapters : \A q \in adapters : (p[1] = q[1]) => (p = q)
    /\ (r_last # NoResult /\ r_last.op = "register") =>
          IF r_last.name \in RegistryNames(r_last.before)
          THEN r_last.raised /\ adapters = r_last.before
          ELSE ~r_last.raised /\ adapters = r_last.before \cup {<<r_last.name, r_calls>>}
    /\ (r_last # NoResult /\ r_last.op = "bootstrap") =>
          /\ ~r_last.raised
          /\ "xlr-liuren" \in RegistryNames(adapters)
          /\ ("xlr-liuren" \in RegistryNames(r_last.before)) => adapters = r_last.before
    /\ (r_last # NoResult /\ r_last.op = "clear") => ~r_last.raised /\ adapters = {}

\* bootstrap registered the default adapter, a later register of the same
\* name raised and the first adapter is still the one registered
C24_Witness ==
    /\ r_last # NoResult
    /\ r_last.op = "register"
    /\ r_last.name = "xlr-liuren"
    /\ r_last.raised
    /\ adapters = {<<"xlr-liuren", 1>>}
    /\ r_calls > 2

----------------------------------------------------------------------------
(* Properties of perform_divination, stated for ServiceSpec *)

ServiceNumbersOutOfRange ==
    \/ s_request.num1 \notin MinNumber..MaxNumber
    \/ s_request.num2 \notin MinNumber..MaxNumber

\* C25: perform_divination called with num1 or num2 outside 1..6 (the other
\* arguments being valid) raises ValueError naming the offending number during
\* slot validation, before any chart is computed and any record is saved.
C25_ServiceRejectsOutOfRange ==
    (s_pc = "done" /\ ServiceNumbersOutOfRange /\ ValidateSlots(s_request) = ""
        /\ ~Truthy(s_request.algorithm_hint)) =>
        /\ s_outcome.kind = "raised"
        /\ s_outcome.exception = "ValueError"
        /\ charts = 0
        /\ records = 0

====
